---- MODULE Spec2Model ----
(***************************************************************************)
(* Model of the two Streamlit dashboards of the repository:                *)
(*   src/vroc.py  VROC/RSI day-trading dashboard (indicators, signals,     *)
(*                strategy returns, total return, Sharpe ratio)            *)
(*   src/vwap.py  VWAP/EMA/RSI dashboard (fetch_stock_data)                *)
(*                                                                         *)
(* A pandas Series is a TLA+ sequence; bar i of the source (0-based) is    *)
(* element i+1 of the sequence.  A float64 is a record                     *)
(*   [k |-> "nan"], [k |-> "inf", n |-> +1/-1] or the exact rational       *)
(*   [k |-> "num", n |-> numerator, d |-> denominator > 0]                 *)
(* with IEEE-754 rules for NaN, the infinities and division by zero.       *)
(* Rounding is not modelled: finite results are exact rationals.           *)
(***************************************************************************)
EXTENDS Integers, Sequences, FiniteSets, TLC

\* Longest downloaded series, and largest look-back period, of the model.
MaxLen == 3
MaxPeriod == 2

----------------------------------------------------------------------------
\* float64 arithmetic

NaN == [k |-> "nan", n |-> 0, d |-> 1]
PosInf == [k |-> "inf", n |-> 1, d |-> 1]
NegInf == [k |-> "inf", n |-> -1, d |-> 1]

Abs(a) == IF a < 0 THEN -a ELSE a

RECURSIVE GCD(_, _)
GCD(a, b) == IF b = 0 THEN a ELSE GCD(b, a % b)

Rat(n, d) ==
  LET s == IF d < 0 THEN -1 ELSE 1
      g == GCD(Abs(n), Abs(d))
  IN [k |-> "num", n |-> (s * n) \div g, d |-> (s * d) \div g]

Num(i) == [k |-> "num", n |-> i, d |-> 1]

IsNaN(x) == x.k = "nan"
IsNum(x) == x.k = "num"
SignOf(x) == IF x.n > 0 THEN 1 ELSE IF x.n < 0 THEN -1 ELSE 0
Inf(s) == IF s < 0 THEN NegInf ELSE PosInf

FNeg(x) == IF IsNaN(x) THEN NaN ELSE [x EXCEPT !.n = -x.n]

FAdd(x, y) ==
  IF IsNaN(x) \/ IsNaN(y) THEN NaN
  ELSE IF x.k = "inf" /\ y.k = "inf" THEN (IF x.n = y.n THEN x ELSE NaN)
  ELSE IF x.k = "inf" THEN x
  ELSE IF y.k = "inf" THEN y
  ELSE Rat(x.n * y.d + y.n * x.d, x.d * y.d)

FSub(x, y) == FAdd(x, FNeg(y))

FMul(x, y) ==
  IF IsNaN(x) \/ IsNaN(y) THEN NaN
  ELSE IF x.k = "inf" \/ y.k = "inf"
       THEN (IF SignOf(x) * SignOf(y) = 0 THEN NaN ELSE Inf(SignOf(x) * SignOf(y)))
  ELSE Rat(x.n * y.n, x.d * y.d)

\* x / y: a finite non-zero x over 0 is +-inf, 0/0 and inf/inf are NaN,
\* a finite x over +-inf is 0.
FDiv(x, y) ==
  IF IsNaN(x) \/ IsNaN(y) THEN NaN
  ELSE IF x.k = "inf"
       THEN (IF y.k = "inf" THEN NaN
             ELSE Inf(x.n * (IF y.n < 0 THEN -1 ELSE 1)))
  ELSE IF y.k = "inf" THEN Num(0)
  ELSE IF y.n = 0 THEN (IF x.n = 0 THEN NaN ELSE Inf(x.n))
  ELSE Rat(x.n * y.d, x.d * y.n)

\* Comparisons: every comparison with NaN is False.
FLt(x, y) ==
  /\ ~IsNaN(x)
  /\ ~IsNaN(y)
  /\ IF x.k = "inf" THEN x.n = -1 /\ ~(y.k = "inf" /\ y.n = -1)
     ELSE IF y.k = "inf" THEN y.n = 1
     ELSE x.n * y.d < y.n * x.d

FGt(x, y) == FLt(y, x)

----------------------------------------------------------------------------
\* pandas Series operations

\* The series <<F(1), ..., F(n)>>.
RECURSIVE Build(_, _)
Build(F(_), n) == IF n = 0 THEN <<>> ELSE Append(Build(F, n - 1), F(n))

Floats(s) == LET F(i) == Num(s[i]) IN Build(F, Len(s))

\* Series.diff(): s[i] - s[i-1], NaN at the first bar.
diff(s) ==
  LET F(i) == IF i = 1 THEN NaN ELSE FSub(s[i], s[i-1])
  IN Build(F, Len(s))

\* Series.shift(1): the previous bar's value, NaN at the first bar.
shift(s) == LET F(i) == IF i = 1 THEN NaN ELSE s[i-1] IN Build(F, Len(s))

\* Series.pct_change(periods): s[i] / s[i-periods] - 1, NaN for i < periods.
pct_change(s, periods) ==
  LET F(i) ==
        IF i <= periods THEN NaN ELSE FSub(FDiv(s[i], s[i-periods]), Num(1))
  IN Build(F, Len(s))

RECURSIVE SumRange(_, _, _)
SumRange(s, lo, hi) ==
  IF lo > hi THEN Num(0) ELSE FAdd(SumRange(s, lo, hi - 1), s[hi])

\* Series.rolling(window).mean(): min_periods defaults to window, so the
\* value is NaN until the window holds `window` non-NaN observations.
rolling_mean(s, window) ==
  LET F(i) ==
        IF i < window \/ \E j \in (i - window + 1)..i : IsNaN(s[j])
        THEN NaN
        ELSE FDiv(SumRange(s, i - window + 1, i), Num(window))
  IN Build(F, Len(s))

\* Series.where(cond, 0) with cond = (s > 0): values failing cond become 0.
\* NaN > 0 is False, so a NaN value becomes 0 too.
where_positive(s) ==
  LET F(i) == IF FGt(s[i], Num(0)) THEN s[i] ELSE Num(0) IN Build(F, Len(s))

\* Series.where(cond, 0) with cond = (s < 0).
where_negative(s) ==
  LET F(i) == IF FLt(s[i], Num(0)) THEN s[i] ELSE Num(0) IN Build(F, Len(s))

\* The non-NaN values of a series, in order (skipna=True of prod/mean/std).
RECURSIVE skipna(_)
skipna(s) ==
  IF Len(s) = 0 THEN <<>>
  ELSE IF IsNaN(Head(s)) THEN skipna(Tail(s))
  ELSE <<Head(s)>> \o skipna(Tail(s))

RECURSIVE Product(_)
Product(s) == IF Len(s) = 0 THEN Num(1) ELSE FMul(Head(s), Product(Tail(s)))

\* Faulty variant: prod(skipna=False).
prod_keepna(s) == Product(s)

\* Series.prod(): the product of the non-NaN values, 1 when there is none.
prod(s) == Product(skipna(s))

\* Series.mean(): the mean of the non-NaN values, NaN when there is none.
mean(s) ==
  LET v == skipna(s)
  IN IF Len(v) = 0 THEN NaN ELSE FDiv(SumRange(v, 1, Len(v)), Num(Len(v)))

\* The square of Series.std() (ddof=1): NaN with fewer than 2 non-NaN values.
variance(s) ==
  LET v == skipna(s)
      m == mean(s)
      D(i) == FMul(FSub(v[i], m), FSub(v[i], m))
      sq == Build(D, Len(v))
  IN IF Len(v) < 2 THEN NaN
     ELSE FDiv(SumRange(sq, 1, Len(sq)), Num(Len(v) - 1))

----------------------------------------------------------------------------
\* src/vroc.py

\* Defaults of the four sliders.
DefaultVrocBuy == 20
DefaultVrocSell == -20
DefaultRsiBuy == 30
DefaultRsiSell == 70
\* Periods per year of the Sharpe ratio.
Annualization == 252

\* Slider settings (VROC buy, VROC sell, RSI buy, RSI sell) the model
\* tries; each value lies in its slider's range (0..100, -100..0, 0..40,
\* 60..100).
SliderSettings ==
  {<<DefaultVrocBuy, DefaultVrocSell, DefaultRsiBuy, DefaultRsiSell>>,
   <<0, 0, 40, 60>>,
   <<0, DefaultVrocSell, 40, DefaultRsiSell>>}

\* Look-back periods.  The source fixes 5 (VROC) and 14 (RSI); the model
\* scales them down so that a series of MaxLen bars has bars on both sides
\* of the first valid index, and keeps the VROC period the shorter one.
PeriodPairs ==
  {pp \in (1..MaxPeriod) \X (1..MaxPeriod) : pp[1] <= pp[2]}

\* What yf.download returns for a well-formed series: an ascending index,
\* positive closes, non-negative volumes; 0 to MaxLen bars.
CloseVals == {1, 2}
VolumeVals == {0, 1, 2}

Ascending(n) == LET F(i) == i IN Build(F, n)
\* The index with its last two timestamps exchanged (when it has two).
Swapped(n) ==
  LET F(i) == IF n < 2 THEN i
              ELSE IF i = n - 1 THEN n ELSE IF i = n THEN n - 1 ELSE i
  IN Build(F, n)

Downloads ==
  UNION {
    {[Index |-> Ascending(m), Close |-> c, Volume |-> v] :
        c \in [1..m -> CloseVals], v \in [1..m -> VolumeVals]}
    : m \in 0..MaxLen}

\* What yf.download may hand over when the series is not validated: the
\* index may be out of order and a volume may be negative.
UnvalidatedDownloads ==
  UNION {
    {[Index |-> ix, Close |-> c, Volume |-> v] :
        ix \in {Ascending(m), Swapped(m)},
        c \in [1..m -> {1, 2}], v \in [1..m -> {-1, 1, 2}]}
    : m \in 0..MaxLen}

NoDownload == [Index |-> <<>>, Close |-> <<>>, Volume |-> <<>>]

EmptyFrame == [Index |-> <<>>, Close |-> <<>>, Volume |-> <<>>,
               VROC |-> <<>>, RSI |-> <<>>]

\* data['VROC'] = data['Volume'].pct_change(periods=period) * 100
vroc_column(volume, period) ==
  LET change == pct_change(volume, period)
      F(i) == FMul(change[i], Num(100))
  IN Build(F, Len(change))

calculate_vroc(d, period) ==
  [d EXCEPT !.VROC = vroc_column(d.Volume, period)]

\* gain = (delta.where(delta > 0, 0)).rolling(window=period).mean()
rsi_gain(delta, period) == rolling_mean(where_positive(delta), period)

\* loss = (-delta.where(delta < 0, 0)).rolling(window=period).mean()
rsi_loss(delta, period) ==
  LET w == where_negative(delta)
      F(i) == FNeg(w[i])
  IN rolling_mean(Build(F, Len(w)), period)

\* Faulty variant: 100 - (100 / rs).
rsi_value_no_one(rs) == FSub(Num(100), FDiv(Num(100), rs))

\* 100 - (100 / (1 + rs))
rsi_value(rs) == FSub(Num(100), FDiv(Num(100), FAdd(Num(1), rs)))

rsi_column(close, period) ==
  LET delta == diff(close)
      gain == rsi_gain(delta, period)
      loss == rsi_loss(delta, period)
      rs(i) == FDiv(gain[i], loss[i])
      F(i) == rsi_value(rs(i))
  IN Build(F, Len(close))

calculate_rsi(d, period) ==
  [d EXCEPT !.RSI = rsi_column(d.Close, period)]

\* Faulty variant: the Buy mask is applied after the Sell mask.
signal_rule_buy_last(vroc, rsi, vb, vs, rb, rsl) ==
  LET s0 == 0
      s1 == IF FLt(vroc, Num(vs)) /\ FGt(rsi, Num(rsl)) THEN -1 ELSE s0
      s2 == IF FGt(vroc, Num(vb)) /\ FLt(rsi, Num(rb)) THEN 1 ELSE s1
  IN s2

\* signals['Signal'] = 0, then the Buy mask sets 1, then the Sell mask
\* sets -1 (lines 80-82), for one bar.
signal_rule(vroc, rsi, vb, vs, rb, rsl) ==
  LET s0 == 0
      s1 == IF FGt(vroc, Num(vb)) /\ FLt(rsi, Num(rb)) THEN 1 ELSE s0
      s2 == IF FLt(vroc, Num(vs)) /\ FGt(rsi, Num(rsl)) THEN -1 ELSE s1
  IN s2

\* Faulty variant: the signal is a score, one point per condition met.
signal_column_score(d, vb, vs, rb, rsl) ==
  LET P(b) == IF b THEN 1 ELSE 0
      F(i) == P(FGt(d.VROC[i], Num(vb))) + P(FLt(d.RSI[i], Num(rb)))
              - P(FLt(d.VROC[i], Num(vs))) - P(FGt(d.RSI[i], Num(rsl)))
  IN Build(F, Len(d.Close))

signal_column(d, vb, vs, rb, rsl) ==
  LET F(i) == signal_rule(d.VROC[i], d.RSI[i], vb, vs, rb, rsl)
  IN Build(F, Len(d.Close))

\* signals['Returns'] = signals['Close'].pct_change()
returns_column(close) == pct_change(close, 1)

\* Faulty variant: the signal is not shifted, the bar's own signal is applied.
strategy_returns_same_bar(signal, returns) ==
  LET now == Floats(signal)
      F(i) == FMul(now[i], returns[i])
  IN Build(F, Len(returns))

\* signals['Strategy_Returns'] = signals['Signal'].shift(1) * signals['Returns']
strategy_returns(signal, returns) ==
  LET prev == shift(Floats(signal))
      F(i) == FMul(prev[i], returns[i])
  IN Build(F, Len(returns))

\* total_return = (1 + signals['Strategy_Returns']).prod() - 1
total_return_of(sr) ==
  LET F(i) == FAdd(Num(1), sr[i])
  IN FSub(prod(Build(F, Len(sr))), Num(1))

\* sharpe_ratio = mean / std * 252 ** 0.5.  The standard deviation is the
\* square root of the variance, so a finite ratio is kept as its sign and
\* its square; mean / 0 follows the division rules (NaN or +-inf).
sharpe_ratio_of(sr) ==
  LET m == mean(sr)
      v == variance(sr)
  IN IF IsNaN(m) \/ IsNaN(v) THEN NaN
     ELSE IF v.n = 0 THEN FMul(FDiv(m, Num(0)), Num(Annualization))
     ELSE [k |-> "sqrt", n |-> SignOf(m), d |-> 1,
           sq |-> FDiv(FMul(FMul(m, m), Num(Annualization)), v)]

\* Lines 79-82 and 149-150: the signals frame of one script run.
signals_frame(d, vb, vs, rb, rsl) ==
  LET sig == signal_column(d, vb, vs, rb, rsl)
      ret == returns_column(d.Close)
  IN [Close |-> d.Close, VROC |-> d.VROC, RSI |-> d.RSI, Signal |-> sig,
      Returns |-> ret, Strategy_Returns |-> strategy_returns(sig, ret)]

NoSignals == [Close |-> <<>>, VROC |-> <<>>, RSI |-> <<>>, Signal |-> <<>>,
              Returns |-> <<>>, Strategy_Returns |-> <<>>]

\* yf.download's frame, as floats, before the indicator columns exist.
frame(raw) ==
  [Index |-> raw.Index, Close |-> Floats(raw.Close),
   Volume |-> Floats(raw.Volume), VROC |-> <<>>, RSI |-> <<>>]

\* get_yesterday_data: a second download replaces an empty first one, and
\* both indicators are added to whatever was downloaded.
get_yesterday_data(first, second, vroc_p, rsi_p) ==
  LET raw == IF Len(first.Close) = 0 THEN second ELSE first
  IN calculate_rsi(calculate_vroc(frame(raw), vroc_p), rsi_p)

----------------------------------------------------------------------------
\* src/vwap.py

\* RSI thresholds of the VWAP/EMA/RSI rule.
VwapRsiBuy == 40
VwapRsiSell == 60

\* What yf.download returns: 0 to MaxLen daily bars, each one of these
\* <<High, Low, Close, Volume>> with Low <= Close <= High.  The first three
\* have the typical price 7/3; the last bar's Close is missing.
BarVals ==
  {[High |-> Num(b[1]), Low |-> Num(b[2]), Close |-> Num(b[3]),
    Volume |-> Num(b[4])] :
      b \in {<<3, 2, 2, 1>>, <<3, 2, 2, 0>>, <<3, 1, 3, 0>>,
             <<1, 1, 1, 0>>, <<1, 1, 1, 1>>, <<2, 1, 2, 1>>}}
  \cup {[High |-> Num(3), Low |-> Num(1), Close |-> NaN, Volume |-> Num(1)]}

StockDownloads == UNION {[1..m -> BarVals] : m \in 0..MaxLen}

\* Lengths of ta.rsi and ta.ema.  The source fixes 14 and 50; the model
\* scales them down and keeps the RSI length the shorter one.
LengthPairs ==
  {lp \in (1..MaxPeriod) \X (1..MaxPeriod) : lp[1] <= lp[2]}

\* The downloaded bars as a frame of columns, indexed by date.
bars_frame(bars) ==
  LET H(i) == bars[i].High
      L(i) == bars[i].Low
      C(i) == bars[i].Close
      V(i) == bars[i].Volume
      n == Len(bars)
  IN [Index |-> Ascending(n), High |-> Build(H, n), Low |-> Build(L, n),
      Close |-> Build(C, n), Volume |-> Build(V, n)]

\* The rows 1..n of df, in order, that hold no NaN in the columns cols.
RECURSIVE notna_rows(_, _, _)
notna_rows(df, cols, n) ==
  IF n = 0 THEN <<>>
  ELSE LET r == notna_rows(df, cols, n - 1)
       IN IF \E c \in cols : IsNaN(df[c][n]) THEN r ELSE Append(r, n)

take(col, rows) == LET F(k) == col[rows[k]] IN Build(F, Len(rows))

\* DataFrame.dropna(subset=cols): the rows with a NaN in cols are removed
\* from every column.
dropna(df, cols) ==
  LET rows == notna_rows(df, cols, Len(df.Index))
  IN [c \in DOMAIN df |-> take(df[c], rows)]

\* Series.cumsum()
cumsum(s) == LET F(i) == SumRange(s, 1, i) IN Build(F, Len(s))

\* Faulty variant: the close stands in for the typical price.
typical_price_close(df) == df.Close

\* (High + Low + Close) / 3
typical_price(df) ==
  LET F(i) == FDiv(FAdd(FAdd(df.High[i], df.Low[i]), df.Close[i]), Num(3))
  IN Build(F, Len(df.Close))

\* Lines 19-22: Typical_Price, Cumulative_Volume, Cumulative_TPV, VWAP.
vwap_columns(df) ==
  LET tp == typical_price(df)
      cv == cumsum(df.Volume)
      TPV(i) == FMul(tp[i], df.Volume[i])
      ctpv == cumsum(Build(TPV, Len(tp)))
      W(i) == FDiv(ctpv[i], cv[i])
  IN df @@ [Typical_Price |-> tp, Cumulative_Volume |-> cv,
            Cumulative_TPV |-> ctpv, VWAP |-> Build(W, Len(tp))]

AllNaN(n) == LET F(i) == NaN IN Build(F, n)

\* pandas_ta.ema(close, length): nothing for a series shorter than length;
\* else NaN before bar length-1, the mean of the first `length` closes at
\* that bar, and from there on alpha*close + (1-alpha)*previous with
\* alpha = 2 / (length + 1).
RECURSIVE ema_at(_, _, _)
ema_at(close, length, i) ==
  IF i < length THEN NaN
  ELSE IF i = length THEN FDiv(SumRange(close, 1, length), Num(length))
  ELSE LET alpha == Rat(2, length + 1)
       IN FAdd(FMul(alpha, close[i]),
               FMul(FSub(Num(1), alpha), ema_at(close, length, i - 1)))

ta_ema(close, length) ==
  IF Len(close) < length THEN AllNaN(Len(close))
  ELSE LET F(i) == ema_at(close, length, i) IN Build(F, Len(close))

\* Series.ewm(alpha=1/length, min_periods=length).mean() (pandas_ta.rma):
\* the weighted mean, with weights (1-alpha)^k, of the observations up to
\* bar i; NaN until `length` observations exist.  The pair is (weighted
\* sum, sum of the weights); a NaN value is no observation.
RECURSIVE ewm_acc(_, _, _)
ewm_acc(x, q, i) ==
  IF i = 0 THEN <<Num(0), Num(0)>>
  ELSE LET p == ewm_acc(x, q, i - 1)
       IN IF IsNaN(x[i]) THEN p
          ELSE <<FAdd(x[i], FMul(q, p[1])), FAdd(Num(1), FMul(q, p[2]))>>

rma(x, length) ==
  LET q == Rat(length - 1, length)
      F(i) ==
        IF Len(skipna(SubSeq(x, 1, i))) < length THEN NaN
        ELSE LET a == ewm_acc(x, q, i) IN FDiv(a[1], a[2])
  IN Build(F, Len(x))

FAbs(x) == IF IsNaN(x) THEN NaN ELSE [x EXCEPT !.n = Abs(x.n)]

\* pandas_ta.rsi(close, length): nothing for a series shorter than length;
\* else 100 * positive_avg / (positive_avg + |negative_avg|) of the
\* close-to-close differences.
ta_rsi(close, length) ==
  IF Len(close) < length THEN AllNaN(Len(close))
  ELSE LET delta == diff(close)
           P(i) == IF FLt(delta[i], Num(0)) THEN Num(0) ELSE delta[i]
           N(i) == IF FGt(delta[i], Num(0)) THEN Num(0) ELSE delta[i]
           positive_avg == rma(Build(P, Len(delta)), length)
           negative_avg == rma(Build(N, Len(delta)), length)
           F(i) == FDiv(FMul(Num(100), positive_avg[i]),
                        FAdd(positive_avg[i], FAbs(negative_avg[i])))
       IN Build(F, Len(close))

\* Lines 34-44 for one bar: Signal = 0, then the Buy mask sets 1, then the
\* Sell mask sets -1.
vwap_signal_rule(close, vwap, ema, rsi) ==
  LET s0 == 0
      s1 == IF FGt(close, vwap) /\ FLt(close, ema) /\ FLt(rsi, Num(VwapRsiBuy))
            THEN 1 ELSE s0
      s2 == IF FLt(close, vwap) /\ FGt(close, ema) /\ FGt(rsi, Num(VwapRsiSell))
            THEN -1 ELSE s1
  IN s2

vwap_signal_column(df) ==
  LET F(i) == vwap_signal_rule(df.Close[i], df.VWAP[i], df.EMA_50[i], df.RSI[i])
  IN Build(F, Len(df.Close))

\* Lines 16-31: the frame with its indicator columns, before the rows with
\* a missing indicator are dropped.
indicator_frame(bars, ema_len, rsi_len) ==
  LET d1 == dropna(bars_frame(bars), {"Close"})
      d2 == vwap_columns(d1)
  IN d2 @@ [EMA_50 |-> ta_ema(d2.Close, ema_len),
            RSI |-> ta_rsi(d2.Close, rsi_len)]

\* Faulty variant: the rows with a missing indicator are kept.
fetch_stock_data_keep_missing(bars, ema_len, rsi_len) ==
  LET d3 == indicator_frame(bars, ema_len, rsi_len)
  IN d3 @@ [Signal |-> vwap_signal_column(d3)]

fetch_stock_data(bars, ema_len, rsi_len) ==
  LET d3 == dropna(indicator_frame(bars, ema_len, rsi_len),
                   {"VWAP", "EMA_50", "RSI"})
  IN d3 @@ [Signal |-> vwap_signal_column(d3)]

NoStockData ==
  [Index |-> <<>>, High |-> <<>>, Low |-> <<>>, Close |-> <<>>,
   Volume |-> <<>>, Typical_Price |-> <<>>, Cumulative_Volume |-> <<>>,
   Cumulative_TPV |-> <<>>, VWAP |-> <<>>, EMA_50 |-> <<>>, RSI |-> <<>>,
   Signal |-> <<>>]

----------------------------------------------------------------------------
VARIABLES
  pc,                   \* "start"; "vroc", "stopped" (st.stop()): vroc.py; "vwap": vwap.py
  downloaded,           \* vroc.py: what yf.download returned
  vroc_period,          \* period of calculate_vroc
  rsi_period,           \* period of calculate_rsi
  data,                 \* vroc.py: data
  vroc_buy_threshold,
  vroc_sell_threshold,
  rsi_buy_threshold,
  rsi_sell_threshold,
  signals,              \* vroc.py: signals
  total_return,
  sharpe_ratio,
  bars,                 \* vwap.py: what yf.download returned
  ema_length,           \* length of ta.ema
  rsi_length,           \* length of ta.rsi
  stock_data            \* vwap.py: what fetch_stock_data returned

vroc_vars == <<downloaded, vroc_period, rsi_period, data, vroc_buy_threshold,
               vroc_sell_threshold, rsi_buy_threshold, rsi_sell_threshold,
               signals, total_return, sharpe_ratio>>
vwap_vars == <<bars, ema_length, rsi_length, stock_data>>
vars == <<pc, vroc_vars, vwap_vars>>

Init ==
  /\ pc = "start"
  /\ downloaded = NoDownload
  /\ vroc_period = 1
  /\ rsi_period = 1
  /\ data = EmptyFrame
  /\ vroc_buy_threshold = DefaultVrocBuy
  /\ vroc_sell_threshold = DefaultVrocSell
  /\ rsi_buy_threshold = DefaultRsiBuy
  /\ rsi_sell_threshold = DefaultRsiSell
  /\ signals = NoSignals
  /\ total_return = NaN
  /\ sharpe_ratio = NaN
  /\ bars = <<>>
  /\ ema_length = 1
  /\ rsi_length = 1
  /\ stock_data = NoStockData

\* Lines 61-65 and 79-153 of one run of vroc.py over the frame d with the
\* sliders at vb, vs, rb, rsl: st.stop() on an empty frame, else the
\* signals and the two performance figures.
RunScript(d, vb, vs, rb, rsl) ==
  /\ data' = d
  /\ vroc_buy_threshold' = vb
  /\ vroc_sell_threshold' = vs
  /\ rsi_buy_threshold' = rb
  /\ rsi_sell_threshold' = rsl
  /\ IF Len(d.Close) = 0
     THEN /\ pc' = "stopped"
          /\ UNCHANGED <<signals, total_return, sharpe_ratio>>
     ELSE LET sg == signals_frame(d, vb, vs, rb, rsl)
          IN /\ pc' = "vroc"
             /\ signals' = sg
             /\ total_return' = total_return_of(sg.Strategy_Returns)
             /\ sharpe_ratio' = sharpe_ratio_of(sg.Strategy_Returns)

\* vroc.py's first run: a stock is selected and yesterday's bars are
\* downloaded from `source` (a second download is tried when the first is
\* empty), with the sliders at their defaults.
SelectStockFrom(source) ==
  /\ pc = "start"
  /\ \E first \in source, pp \in PeriodPairs :
       \E second \in (IF Len(first.Close) = 0 THEN source ELSE {first}) :
          /\ downloaded' = (IF Len(first.Close) = 0 THEN second ELSE first)
          /\ vroc_period' = pp[1]
          /\ rsi_period' = pp[2]
          /\ RunScript(get_yesterday_data(first, second, pp[1], pp[2]),
                       vroc_buy_threshold, vroc_sell_threshold,
                       rsi_buy_threshold, rsi_sell_threshold)
  /\ UNCHANGED vwap_vars

SelectStock == SelectStockFrom(Downloads)

\* A slider is moved: vroc.py runs again over the same day's bars.
MoveSlider ==
  /\ pc = "vroc"
  /\ \E st \in SliderSettings :
       RunScript(get_yesterday_data(downloaded, downloaded, vroc_period, rsi_period),
                 st[1], st[2], st[3], st[4])
  /\ UNCHANGED <<downloaded, vroc_period, rsi_period>>
  /\ UNCHANGED vwap_vars

\* vwap.py's run: main() calls fetch_stock_data for the selected stock.
FetchStockData ==
  /\ pc = "start"
  /\ \E b \in StockDownloads, lp \in LengthPairs :
       /\ bars' = b
       /\ rsi_length' = lp[1]
       /\ ema_length' = lp[2]
       /\ stock_data' = fetch_stock_data(b, lp[2], lp[1])
  /\ pc' = "vwap"
  /\ UNCHANGED vroc_vars

Next == SelectStock \/ MoveSlider \/ FetchStockData

Spec == Init /\ [][Next]_vars

----------------------------------------------------------------------------
\* The VROC/RSI rule as a function of one bar's indicator values and of the
\* four thresholds, over values and thresholds of every kind (missing,
\* infinite, on a threshold, thresholds whose ranges overlap).

RuleVrocVals == {NaN, PosInf, NegInf, Num(-50), Num(0), Num(20), Num(50)}
RuleRsiVals == {NaN, Num(0), Num(30), Num(50), Num(70), Num(100)}
RuleSettings == {-60, 20} \X {-20, 60} \X {30, 80} \X {20, 70}

InitRule ==
  /\ pc = "rule"
  /\ downloaded = [Index |-> <<1>>, Close |-> <<1>>, Volume |-> <<1>>]
  /\ vroc_period = 1
  /\ rsi_period = 1
  /\ \E v \in RuleVrocVals, r \in RuleRsiVals :
       data = [Index |-> <<1>>, Close |-> <<Num(1)>>, Volume |-> <<Num(1)>>,
               VROC |-> <<v>>, RSI |-> <<r>>]
  /\ \E st \in RuleSettings :
       /\ vroc_buy_threshold = st[1]
       /\ vroc_sell_threshold = st[2]
       /\ rsi_buy_threshold = st[3]
       /\ rsi_sell_threshold = st[4]
  /\ signals = NoSignals
  /\ total_return = NaN
  /\ sharpe_ratio = NaN
  /\ bars = <<>>
  /\ ema_length = 1
  /\ rsi_length = 1
  /\ stock_data = NoStockData

\* Lines 79-153 over the given indicator values.
ApplyRule ==
  /\ pc = "rule"
  /\ RunScript(data, vroc_buy_threshold, vroc_sell_threshold,
               rsi_buy_threshold, rsi_sell_threshold)
  /\ UNCHANGED <<downloaded, vroc_period, rsi_period>>
  /\ UNCHANGED vwap_vars

SpecRule == InitRule /\ [][ApplyRule]_vars

----------------------------------------------------------------------------
\* vroc.py over downloads that nothing has validated.

SelectUnvalidated == SelectStockFrom(UnvalidatedDownloads)

NextUnvalidated == SelectUnvalidated \/ MoveSlider

SpecUnvalidated == Init /\ [][NextUnvalidated]_vars

----------------------------------------------------------------------------
\* Properties.  A float x is compared with an integer threshold t directly
\* on its numerator and denominator; a missing value (NaN) is neither above
\* nor below anything.

Above(x, t) == (x.k = "inf" /\ x.n = 1) \/ (x.k = "num" /\ x.n > t * x.d)
Below(x, t) == (x.k = "inf" /\ x.n = -1) \/ (x.k = "num" /\ x.n < t * x.d)

BuyPredicate(i) ==
  Above(data.VROC[i], vroc_buy_threshold) /\ Below(data.RSI[i], rsi_buy_threshold)
SellPredicate(i) ==
  Below(data.VROC[i], vroc_sell_threshold) /\ Above(data.RSI[i], rsi_sell_threshold)

Bars == 1..Len(data.Close)

\* C1: once the VROC/RSI signals are computed, every bar is Sell if the
\* Sell predicate holds there, else Buy if the Buy predicate holds, else
\* Hold; a bar whose VROC or RSI is missing is Hold.
VrocRsiRule ==
  pc = "vroc" =>
    /\ Len(signals.Signal) = Len(data.Close)
    /\ \A i \in Bars :
         /\ signals.Signal[i] =
              (IF SellPredicate(i) THEN -1 ELSE IF BuyPredicate(i) THEN 1 ELSE 0)
         /\ (IsNaN(data.VROC[i]) \/ IsNaN(data.RSI[i])) => signals.Signal[i] = 0

\* C1 witness: a bar at which both predicates hold, and which is Sell.
VrocRsiTieIsSell ==
  /\ pc = "vroc"
  /\ \E i \in Bars : BuyPredicate(i) /\ SellPredicate(i) /\ signals.Signal[i] = -1

\* C2: under both rule sets every bar of the frame carries one signal, and
\* it is +1, 0 or -1.
OneSignalPerBar ==
  /\ pc = "vroc" =>
       /\ Len(signals.Signal) = Len(signals.Close)
       /\ \A i \in 1..Len(signals.Signal) : signals.Signal[i] \in {1, 0, -1}
  /\ pc = "vwap" =>
       /\ Len(stock_data.Signal) = Len(stock_data.Close)
       /\ \A i \in 1..Len(stock_data.Signal) : stock_data.Signal[i] \in {1, 0, -1}

\* C2 witness: the VWAP/EMA/RSI rule emitted a Sell bar and a Hold bar.
VwapSellEmitted ==
  /\ pc = "vwap"
  /\ \E i, j \in 1..Len(stock_data.Signal) :
       stock_data.Signal[i] = -1 /\ stock_data.Signal[j] = 0

\* C3: the strategy return of the first bar is missing, and that of every
\* later bar i is signal[i-1] * (close[i] - close[i-1]) / close[i-1]: it
\* reads no signal of bar i or later.
NoLookahead ==
  pc = "vroc" =>
    LET sr == signals.Strategy_Returns
        c == downloaded.Close
    IN /\ Len(sr) = Len(c)
       /\ IsNaN(sr[1])
       /\ \A i \in 2..Len(c) :
            sr[i] = Rat(signals.Signal[i-1] * (c[i] - c[i-1]), c[i-1])

\* C3 witness: a bar whose return is not 0, after a Buy or Sell bar, and
\* whose own signal differs from the previous bar's.
PositionCarriedOver ==
  /\ pc = "vroc"
  /\ \E i \in 2..Len(downloaded.Close) :
       /\ signals.Signal[i-1] # 0
       /\ signals.Signal[i] # signals.Signal[i-1]
       /\ downloaded.Close[i] # downloaded.Close[i-1]

AllHold == \A i \in 1..Len(signals.Signal) : signals.Signal[i] = 0

\* C4: when every bar is Hold, the total return is exactly 0 and the Sharpe
\* ratio is NaN.
AllHoldPerformance ==
  (pc = "vroc" /\ AllHold) => (total_return = Num(0) /\ sharpe_ratio = NaN)

\* C4 witness: an all-Hold run over three or more bars whose close moves.
AllHoldRun ==
  /\ pc = "vroc"
  /\ AllHold
  /\ Len(downloaded.Close) >= 3
  /\ \E i \in 2..Len(downloaded.Close) : downloaded.Close[i] # downloaded.Close[i-1]

\* C5: no RSI value is infinite, every RSI value that is not missing lies
\* in 0..100, it is exactly 100 where the average loss is 0 and the average
\* gain positive, and it is missing where both averages are 0.
RsiBounded ==
  pc = "vroc" =>
    LET delta == diff(data.Close)
        gain == rsi_gain(delta, rsi_period)
        loss == rsi_loss(delta, rsi_period)
    IN \A i \in Bars :
         LET r == data.RSI[i]
         IN /\ r.k # "inf"
            /\ IsNum(r) => (0 <= r.n /\ r.n <= 100 * r.d)
            /\ (IsNum(gain[i]) /\ IsNum(loss[i]) /\ loss[i].n = 0 /\ gain[i].n > 0)
                 => r = Num(100)
            /\ (IsNum(gain[i]) /\ IsNum(loss[i]) /\ loss[i].n = 0 /\ gain[i].n = 0)
                 => IsNaN(r)

\* C5 witness: one bar saturated at 100, another, past the first window,
\* where the close did not move over the window.
RsiSaturatedAndMissing ==
  /\ pc = "vroc"
  /\ \E i, j \in Bars :
       /\ data.RSI[i] = Num(100)
       /\ j > rsi_period
       /\ IsNaN(data.RSI[j])

\* The sum of F(1), ..., F(n), an integer.
RECURSIVE IntSum(_, _)
IntSum(F(_), n) == IF n = 0 THEN 0 ELSE IntSum(F, n - 1) + F(n)

\* C6: VWAP at a bar whose cumulative volume is positive is the sum of
\* typical price * volume over the sum of volume, from the first bar; when
\* the typical price (High + Low + Close) / 3 of every downloaded bar is the
\* same positive number, that number is the VWAP of every such bar, and of
\* every bar fetch_stock_data returns.
VwapOfConstantTypicalPrice ==
  pc = "vwap" =>
    LET f == indicator_frame(bars, ema_length, rsi_length)
        n == Len(f.Index)
        HLC(i) == f.High[i].n + f.Low[i].n + f.Close[i].n
        V(i) == f.Volume[i].n
        W(i) == HLC(i) * V(i)
        constant == /\ Len(bars) > 0
                    /\ \A i \in 1..Len(bars) : ~IsNaN(bars[i].Close)
                    /\ \A i \in 1..n : HLC(i) = HLC(1) /\ HLC(1) > 0
    IN /\ \A i \in 1..n :
            IntSum(V, i) > 0 => f.VWAP[i] = Rat(IntSum(W, i), 3 * IntSum(V, i))
       /\ constant =>
            /\ \A i \in 1..n : IntSum(V, i) > 0 => f.VWAP[i] = Rat(HLC(1), 3)
            /\ \A k \in 1..Len(stock_data.VWAP) : stock_data.VWAP[k] = Rat(HLC(1), 3)

\* C6 witness: bars of different closes and the same typical price, the
\* first of volume 0, and a returned bar.
ConstantTypicalPriceRun ==
  /\ pc = "vwap"
  /\ Len(bars) >= 2
  /\ \A i \in 1..Len(bars) :
       /\ ~IsNaN(bars[i].Close)
       /\ bars[i].High.n + bars[i].Low.n + bars[i].Close.n
            = bars[1].High.n + bars[1].Low.n + bars[1].Close.n
  /\ \E i \in 1..Len(bars) : bars[i].Close # bars[1].Close
  /\ bars[1].Volume = Num(0)
  /\ Len(stock_data.VWAP) > 0

ColumnsOfFrame == {"VWAP", "EMA_50", "RSI", "Signal", "Close", "Index"}

Malformed(raw) ==
  \/ \E i \in 1..Len(raw.Volume) : raw.Volume[i] < 0
  \/ \E i \in 1..(Len(raw.Index) - 1) : raw.Index[i] >= raw.Index[i+1]

\* C8: a download with a negative volume or timestamps out of order is
\* rejected: no VROC, RSI or signal is computed from it.
MalformedInputRejected ==
  Malformed(downloaded) =>
    /\ pc # "vroc"
    /\ data.VROC = <<>>
    /\ data.RSI = <<>>
    /\ signals = NoSignals

\* C9: RSI is missing at every bar i < p (the first rsi_period elements).
RsiMissingBeforePeriod ==
  pc = "vroc" =>
    \A i \in Bars : i <= rsi_period => IsNaN(data.RSI[i])

\* C10: a bar i >= p whose volume p bars earlier is 0 is Hold.
ZeroPriorVolumeIsHold ==
  pc = "vroc" =>
    \A i \in Bars :
      (i > vroc_period /\ downloaded.Volume[i - vroc_period] = 0)
        => signals.Signal[i] = 0

====
